---- MODULE Spec2Model ----
(***************************************************************************)
(* Log normalisation pipeline of llm-incident-copilot: format detection,   *)
(* line parsing, structured chunking and statistics                        *)
(* (backend/app/parsers.py, backend/app/ingest.py).                        *)
(*                                                                         *)
(* Representation.  A text is a sequence of tokens.  NL is a line          *)
(* boundary, SP one whitespace character; every other token is a maximal   *)
(* piece of a line that the regular expressions of parsers.py treat as a   *)
(* unit (a timestamp, a bracketed thread, a key=value pair, a JSON object  *)
(* ...).  The regular expressions are modelled on the token level: \s+ and *)
(* \s* between two units are matched by the SP tokens between them, and    *)
(* the lines of the corpora below always separate units by whitespace.     *)
(* A Python value is a record with a type tag ty.                          *)
(***************************************************************************)
EXTENDS Integers, Sequences, FiniteSets, TLC

VARIABLES
    text,                \* smart_chunk_logs / extract_log_stats / chunk_text: the input text
    max_lines,           \* smart_chunk_logs: parameter
    max_chars,           \* smart_chunk_logs / chunk_text: parameter
    pc,                  \* position of the running call
    fmt,                 \* smart_chunk_logs: the detected format
    parsed,              \* smart_chunk_logs: the list of ParsedLogLine
    idx,                 \* smart_chunk_logs: parsed lines consumed by the loop
    current_chunk_lines, \* smart_chunk_logs: the open chunk
    current_chunk_meta,  \* smart_chunk_logs: the open chunk's metadata
    chunks,              \* smart_chunk_logs: the chunks emitted
    stats,               \* extract_log_stats: the returned dict
    raised,              \* the exception that left a call, "" when none
    parsed_file,         \* parse_log_file: the returned (format, parsed lines)
    line,                \* parse_line: argument
    line_fmt,            \* parse_line: argument
    result,              \* parse_line: the returned ParsedLogLine
    MAX_CHUNKS,          \* config.py: the cap on the chunks of one upload
    chunk_texts,         \* ingest: the texts handed to embedding and storage
    metas,               \* ingest: their metadata, position by position
    overlap,             \* chunk_text: parameter
    blocks,              \* chunk_text: the blocks of the text
    block_no,            \* chunk_text: blocks handed to push_with_overlap
    s_block,             \* push_with_overlap: its s, the trimmed block
    start,               \* push_with_overlap: where the next window starts
    basic_chunks,        \* chunk_text: its list chunks
    chunk,               \* detect_metadata: argument
    filename,            \* detect_metadata: argument
    chunk_meta,          \* detect_metadata: the returned dict
    conversations,       \* main.py: the process-wide dict of conversation histories
    req,                 \* analyze: the AnalyzeRequest of each request
    where,               \* analyze: the statement each request is about to execute
    conv_id,             \* analyze: the local conv_id of each request
    response             \* analyze: the conversation_id of each AnalyzeResponse

ingestVars == <<MAX_CHUNKS, chunk_texts, metas>>

basicVars == <<overlap, blocks, block_no, s_block, start, basic_chunks>>

metaVars == <<chunk, filename, chunk_meta>>

convVars == <<conversations, req, where, conv_id, response>>

\* the state of the calls on a text, which analyze never touches
pipelineVars == <<text, max_lines, max_chars, pc, fmt, parsed, idx, current_chunk_lines,
                  current_chunk_meta, chunks, stats, raised, parsed_file,
                  line, line_fmt, result, ingestVars, basicVars, metaVars>>

vars == <<pipelineVars, convVars>>

Min(a, b) == IF a <= b THEN a ELSE b

Max(a, b) == IF a >= b THEN a ELSE b

RECURSIVE SumSeq(_)
SumSeq(s) == IF s = <<>> THEN 0 ELSE Head(s) + SumSeq(Tail(s))

RECURSIVE Flatten(_)
Flatten(ss) == IF ss = <<>> THEN <<>> ELSE Head(ss) \o Flatten(Tail(ss))

(***************************************************************************)
(* Python values                                                           *)
(***************************************************************************)
None == [ty |-> "none"]

Str(s) == [ty |-> "str", s |-> s]

Num(n) == [ty |-> "num", n |-> n]

Bool(b) == [ty |-> "bool", b |-> b]

Obj(n) == [ty |-> "obj", n |-> n]

\* a str that is a piece of a line, kept as its tokens
Txt(toks) == [ty |-> "text", toks |-> toks]

\* bool(v)
Truthy(v) ==
    CASE v.ty = "none" -> FALSE
      [] v.ty = "str"  -> v.s # ""
      [] v.ty = "text" -> v.toks # <<>>
      [] v.ty = "num"  -> v.n # 0
      [] v.ty = "bool" -> v.b
      [] v.ty = "obj"  -> v.n # 0

IsStr(v) == v.ty \in {"str", "text"}

\* a or b or c ...: the first truthy operand, else the last one
RECURSIVE OrChain(_)
OrChain(vs) ==
    IF Len(vs) = 1 THEN vs[1]
    ELSE IF Truthy(vs[1]) THEN vs[1] ELSE OrChain(Tail(vs))

\* str.upper() on the words of the corpora
Upper(s) ==
    CASE s = "error"    -> "ERROR"
      [] s = "warn"     -> "WARN"
      [] s = "warning"  -> "WARNING"
      [] s = "info"     -> "INFO"
      [] s = "Fatal"    -> "FATAL"
      [] s = "critical" -> "CRITICAL"
      [] s = "debug"    -> "DEBUG"
      [] OTHER          -> s

(***************************************************************************)
(* Tokens                                                                  *)
(***************************************************************************)
NL == [t |-> "nl"]

SP == [t |-> "sp"]

Word(s) == [t |-> "word", s |-> s]

\* 2024-01-01 00:00:00 with optional fraction ",123"
Ts(s, ms) == [t |-> "ts", s |-> s, ms |-> ms]

Dash == [t |-> "dash"]

\* [thread] or [thread:cls]
Br(thread, cls) == [t |-> "br", thread |-> thread, cls |-> cls]

\* Jan  1 00:00:00
SysTs(s) == [t |-> "systs", s |-> s]

\* process[pid]: or process:
Proc(s, pid) == [t |-> "proc", s |-> s, pid |-> pid]

\* key=value or key="value"
Kv(k, v) == [t |-> "kv", k |-> k, v |-> v]

\* the text of a complete JSON object with these members, in order
Json(pairs) == [t |-> "json", pairs |-> pairs]

\* the text of a JSON array
JsonArr == [t |-> "jsonarr"]

\* an opening brace that no closing brace follows
LBrace == [t |-> "lbrace"]

P(k, v) == [k |-> k, v |-> v]

ValLen(v) ==
    CASE v.ty = "str"  -> Len(v.s) + 2
      [] v.ty = "num"  -> 1
      [] v.ty = "bool" -> IF v.b THEN 4 ELSE 5
      [] v.ty = "none" -> 4
      [] v.ty = "obj"  -> 2 + 7 * v.n

\* len() of the token's text
TokLen(tok) ==
    CASE tok.t \in {"nl", "sp", "dash", "lbrace", "ch"} -> 1
      [] tok.t = "word"    -> Len(tok.s)
      [] tok.t = "ts"      -> Len(tok.s) + Len(tok.ms)
      [] tok.t = "br"      -> 2 + Len(tok.thread)
                                + (IF tok.cls = "" THEN 0 ELSE 1 + Len(tok.cls))
      [] tok.t = "systs"   -> Len(tok.s)
      [] tok.t = "proc"    -> Len(tok.s) + 1
                                + (IF tok.pid = "" THEN 0 ELSE 2 + Len(tok.pid))
      [] tok.t = "kv"      -> Len(tok.k) + 1 + Len(tok.v)
      [] tok.t = "json"    -> 1 + Len(tok.pairs)
                                + SumSeq([i \in 1..Len(tok.pairs) |->
                                      Len(tok.pairs[i].k) + 3 + ValLen(tok.pairs[i].v)])
                                + (IF tok.pairs = <<>> THEN 1 ELSE 0)
      [] tok.t = "jsonarr" -> 3

\* len(s) of a str kept as tokens
StrLen(toks) == SumSeq([i \in 1..Len(toks) |-> TokLen(toks[i])])

(***************************************************************************)
(* str.strip, str.splitlines, "\n".join                                    *)
(***************************************************************************)
IsSpace(tok) == tok.t \in {"sp", "nl"}

RECURSIVE LStrip(_)
LStrip(s) == IF s # <<>> /\ IsSpace(Head(s)) THEN LStrip(Tail(s)) ELSE s

RECURSIVE RStrip(_)
RStrip(s) ==
    IF s # <<>> /\ IsSpace(s[Len(s)]) THEN RStrip(SubSeq(s, 1, Len(s) - 1)) ELSE s

\* str.lstrip in place of str.strip
StripLeftOnly(s) == LStrip(s)

strip(s) == RStrip(LStrip(s))

\* the members of a set of positions, in increasing order
Ascending(S) ==
    [k \in 1..Cardinality(S) |-> CHOOSE x \in S : Cardinality({y \in S : y < x}) = k - 1]

\* str.splitlines(): the pieces between the line boundaries, what follows the
\* last boundary being a line only when it is not empty
splitlines(s) ==
    LET ends == Ascending({i \in 1..Len(s) : s[i] = NL})
        n == Len(ends)
        from(k) == IF k = 1 THEN 1 ELSE ends[k - 1] + 1
        to(k) == IF k > n THEN Len(s) ELSE ends[k] - 1
        count == IF n > 0 /\ ends[n] = Len(s) THEN n
                 ELSE IF s = <<>> THEN 0 ELSE n + 1
    IN [k \in 1..count |-> SubSeq(s, from(k), to(k))]

\* "\n".join(ls)
RECURSIVE join(_)
join(ls) ==
    IF ls = <<>> THEN <<>>
    ELSE IF Len(ls) = 1 THEN ls[1]
    ELSE ls[1] \o <<NL>> \o join(Tail(ls))

(***************************************************************************)
(* parsers.py: LogFormat and the patterns                                  *)
(***************************************************************************)
LogFormat == {"json", "logfmt", "syslog", "java_structured", "plain"}

NotSpace(tok) == ~IsSpace(tok)

\* the units of a line, the whitespace between them dropped
Units(l) == SelectSeq(l, NotSpace)

\* what follows the first k units of l and the whitespace after them
RECURSIVE AfterUnits(_, _)
AfterUnits(l, k) ==
    IF l = <<>> THEN <<>>
    ELSE IF k = 0 THEN LStrip(l)
    ELSE IF IsSpace(Head(l)) THEN AfterUnits(Tail(l), k)
    ELSE AfterUnits(Tail(l), k - 1)

RECURSIVE SkipSeparators(_)
SkipSeparators(l) ==
    IF l # <<>> /\ (IsSpace(Head(l)) \/ Head(l) = Dash)
    THEN SkipSeparators(Tail(l)) ELSE l

\* (INFO|WARN|ERROR|DEBUG|TRACE|FATAL), case-sensitive
JavaLevel(tok) ==
    tok.t = "word" /\ tok.s \in {"INFO", "WARN", "ERROR", "DEBUG", "TRACE", "FATAL"}

\* \d{4}-\d{2}-\d{2}[ T]\d{2}:\d{2}:\d{2}[,\.:]\d{3}
FracTs(tok) == tok.t = "ts" /\ tok.ms # ""

\* the content of [...]
BrText(tok) == IF tok.cls = "" THEN tok.thread ELSE tok.thread \o ":" \o tok.cls

\* JAVA_LOG_PATTERN.match(l): the groups, or None
JAVA_LOG_PATTERN(l) ==
    LET w == Units(l) IN
    IF /\ Len(w) >= 4 /\ Head(l) = w[1]
       /\ FracTs(w[1]) /\ JavaLevel(w[2]) /\ w[3].t = "br"
       /\ w[4].t = "word" /\ Len(w[4].s) >= 2
    THEN [ty |-> "match",
          g1 |-> Str(w[1].s \o w[1].ms), g2 |-> Str(w[2].s),
          g3 |-> Str(BrText(w[3])), g4 |-> Str(w[4].s),
          g5 |-> Txt(SkipSeparators(AfterUnits(l, 4)))]
    ELSE None

\* ZK_LOG_PATTERN.match(l): the groups, or None
ZK_LOG_PATTERN(l) ==
    LET w == Units(l) IN
    IF /\ Len(w) >= 5 /\ Head(l) = w[1]
       /\ FracTs(w[1]) /\ w[2] = Dash /\ JavaLevel(w[3])
       /\ w[4].t = "br" /\ w[5] = Dash
    THEN [ty |-> "match",
          g1 |-> Str(w[1].s \o w[1].ms), g2 |-> Str(w[3].s),
          g3 |-> w[4], g4 |-> Txt(AfterUnits(l, 5))]
    ELSE None

\* SYSLOG_PATTERN.match(l): the groups, or None
SYSLOG_PATTERN(l) ==
    LET w == Units(l) IN
    IF /\ Len(w) >= 3 /\ Head(l) = w[1]
       /\ w[1].t = "systs" /\ w[2].t = "word" /\ w[3].t = "proc"
    THEN [ty |-> "match",
          g1 |-> Str(w[1].s), g2 |-> Str(w[2].s), g3 |-> Str(w[3].s),
          g4 |-> IF w[3].pid = "" THEN None ELSE Str(w[3].pid),
          g5 |-> Txt(AfterUnits(l, 3))]
    ELSE None

IsKv(tok) == tok.t = "kv"

\* LOGFMT_PATTERN.findall(l) / finditer(l): the key=value matches in order
LOGFMT_PATTERN(l) == SelectSeq(l, IsKv)

\* json.loads(l) succeeds: the whole line is one JSON document
JsonParses(l) == Len(l) = 1 /\ l[1].t \in {"json", "jsonarr"}

\* line.startswith('{')
StartsWithBrace(l) == l # <<>> /\ l[1].t \in {"json", "lbrace"}

(***************************************************************************)
(* parsers.py: detect_format                                               *)
(***************************************************************************)
DETECT_SCAN == 20

\* one pass of the loop body (lines 77-107): the counter the line increments
Vote(raw_line) ==
    LET l == strip(raw_line) IN
    IF l = <<>> THEN "none"
    ELSE IF StartsWithBrace(l) /\ JsonParses(l) THEN "json"
    ELSE IF Len(LOGFMT_PATTERN(l)) >= 3 THEN "logfmt"
    ELSE IF ZK_LOG_PATTERN(l) # None THEN "zk"
    ELSE IF JAVA_LOG_PATTERN(l) # None THEN "java"
    ELSE IF SYSLOG_PATTERN(l) # None THEN "syslog"
    ELSE "none"

\* s[:n]
Take(s, n) == SubSeq(s, 1, Min(n, Len(s)))

Count(s, c) == Cardinality({i \in 1..Len(s) : Vote(s[i]) = c})

\* max() keeping the last entry with the largest count
RECURSIVE LastMax(_)
LastMax(counts) ==
    IF Len(counts) = 1 THEN counts[1]
    ELSE LET rest == LastMax(Tail(counts)) IN
         IF counts[1][1] > rest[1] THEN counts[1] ELSE rest

\* max(counts, key=lambda x: x[0]): the first entry with the largest count
RECURSIVE FirstMax(_)
FirstMax(counts) ==
    IF Len(counts) = 1 THEN counts[1]
    ELSE LET rest == FirstMax(Tail(counts)) IN
         IF counts[1][1] >= rest[1] THEN counts[1] ELSE rest

detect_format(lines) ==
    IF lines = <<>> THEN "plain"
    ELSE LET scanned == Take(lines, DETECT_SCAN)
             counts == << <<Count(scanned, "json"), "json">>,
                          <<Count(scanned, "logfmt"), "logfmt">>,
                          <<Count(scanned, "java") + Count(scanned, "zk"),
                            "java_structured">>,
                          <<Count(scanned, "syslog"), "syslog">> >>
             best == FirstMax(counts)
         IN IF best[1] > 0 THEN best[2] ELSE "plain"

(***************************************************************************)
(* parsers.py: the line parsers                                            *)
(***************************************************************************)
\* ParsedLogLine(raw=l)
ParsedLogLine(l) ==
    [raw |-> Txt(l), timestamp |-> None, level |-> None, message |-> None,
     logger |-> None, thread |-> None, extra |-> None]

Dict(f) == [ty |-> "dict", d |-> f]

EmptyDict == Dict([k \in {} |-> None])

\* the dict a sequence of (key, value) members builds: the last value of a key wins
DictOf(pairs) ==
    LET keys == {pairs[i].k : i \in 1..Len(pairs)}
        last(k) == CHOOSE i \in 1..Len(pairs) :
                      /\ pairs[i].k = k
                      /\ \A j \in (i + 1)..Len(pairs) : pairs[j].k # k
    IN [k \in keys |-> pairs[last(k)].v]

\* d.get(k)
Get(d, k) == IF k \in DOMAIN d THEN d[k] ELSE None

\* {k: v for k, v in d.items() if k not in known}
Without(d, known) == [k \in (DOMAIN d) \ known |-> d[k]]

JSON_KNOWN ==
    {"timestamp", "time", "@timestamp", "ts", "level", "severity", "log_level",
     "message", "msg", "log", "logger", "name", "source", "thread", "thread_name"}

JsonTimestamp(data) ==
    OrChain(<<Get(data, "timestamp"), Get(data, "time"),
              Get(data, "@timestamp"), Get(data, "ts")>>)

\* the level synonyms looked up in another order
JsonLevelSeverityFirst(data) ==
    OrChain(<<Get(data, "severity"), Get(data, "level"), Get(data, "log_level")>>)

JsonLevel(data) ==
    OrChain(<<Get(data, "level"), Get(data, "severity"), Get(data, "log_level")>>)

JsonMessage(data) ==
    OrChain(<<Get(data, "message"), Get(data, "msg"), Get(data, "log")>>)

JsonLogger(data) ==
    OrChain(<<Get(data, "logger"), Get(data, "name"), Get(data, "source")>>)

JsonThread(data) == OrChain(<<Get(data, "thread"), Get(data, "thread_name")>>)

\* extra without the exclusion list
JsonExtraAll(data) == Dict(data)

JsonExtra(data) == Dict(Without(data, JSON_KNOWN))

\* json.loads fails, or it returns a list and data.get raises AttributeError:
\* the bare except sets the message, nothing else was assigned yet
parse_json_line(l) ==
    IF Len(l) = 1 /\ l[1].t = "json"
    THEN LET data == DictOf(l[1].pairs) IN
         [ParsedLogLine(l) EXCEPT
             !.timestamp = JsonTimestamp(data),
             !.level = JsonLevel(data),
             !.message = JsonMessage(data),
             !.logger = JsonLogger(data),
             !.thread = JsonThread(data),
             !.extra = JsonExtra(data)]
    ELSE [ParsedLogLine(l) EXCEPT !.message = Txt(l)]

\* str.lower() on the keys of the corpora
Lower(s) ==
    CASE s = "Level" -> "level"
      [] s = "MSG"   -> "msg"
      [] OTHER       -> s

LOGFMT_KNOWN ==
    {"time", "timestamp", "ts", "level", "lvl", "severity", "msg", "message",
     "logger", "component", "caller"}

\* fields[key.lower()] = value, over the matches in order
LogfmtFields(l) ==
    LET ms == LOGFMT_PATTERN(l) IN
    DictOf([i \in 1..Len(ms) |-> P(Lower(ms[i].k), Str(ms[i].v))])

LogfmtExtra(fields) == Dict(Without(fields, LOGFMT_KNOWN))

parse_logfmt_line(l) ==
    LET fields == LogfmtFields(l) IN
    [ParsedLogLine(l) EXCEPT
        !.timestamp = OrChain(<<Get(fields, "time"), Get(fields, "timestamp"),
                                Get(fields, "ts")>>),
        !.level = OrChain(<<Get(fields, "level"), Get(fields, "lvl"),
                            Get(fields, "severity")>>),
        !.message = OrChain(<<Get(fields, "msg"), Get(fields, "message")>>),
        !.logger = OrChain(<<Get(fields, "logger"), Get(fields, "component"),
                             Get(fields, "caller")>>),
        !.extra = LogfmtExtra(fields)]

TIMESTAMPS == {"2024-01-01 00:00:00", "2024-01-01T00:00:00", "2024-01-02 10:00:00"}

LEVELS == {"INFO", "WARN", "WARNING", "ERROR", "DEBUG", "TRACE", "FATAL", "CRITICAL"}

\* the strings of a token the searches run over, in text order
TokStrings(tok) ==
    CASE tok.t = "word"  -> <<tok.s>>
      [] tok.t = "ts"    -> <<tok.s>>
      [] tok.t = "br"    -> <<tok.thread, tok.cls>>
      [] tok.t = "proc"  -> <<tok.s>>
      [] tok.t = "kv"    -> <<tok.k, tok.v>>
      [] tok.t = "json"  ->
            Flatten([i \in 1..Len(tok.pairs) |->
                IF tok.pairs[i].v.ty = "str"
                THEN <<tok.pairs[i].k, tok.pairs[i].v.s>> ELSE <<tok.pairs[i].k>>])
      [] OTHER -> <<>>

LineStrings(l) == Flatten([i \in 1..Len(l) |-> TokStrings(l[i])])

IsTimestamp(s) == s \in TIMESTAMPS

IsLevel(s) == Upper(s) \in LEVELS

\* TIMESTAMP_PATTERN.search(l): group(0), or None
TIMESTAMP_PATTERN(l) ==
    LET hits == SelectSeq(LineStrings(l), IsTimestamp) IN
    IF hits = <<>> THEN None ELSE Str(hits[1])

\* LEVEL_PATTERN.search(l): group(1), or None
LEVEL_PATTERN(l) ==
    LET hits == SelectSeq(LineStrings(l), IsLevel) IN
    IF hits = <<>> THEN None ELSE Str(hits[1])

parse_plain_line(l) ==
    LET ts_match == TIMESTAMP_PATTERN(l)
        level_match == LEVEL_PATTERN(l)
    IN [ParsedLogLine(l) EXCEPT
           !.timestamp = IF ts_match # None THEN ts_match ELSE None,
           !.level = IF level_match # None THEN Str(Upper(level_match.s)) ELSE None,
           !.message = Txt(l)]

\* lines 181-204: the ParsedLogLine of a line one of the two patterns matches
JavaMatched(l) ==
    LET zk_match == ZK_LOG_PATTERN(l)
        java_match == JAVA_LOG_PATTERN(l)
    IN IF zk_match # None
       THEN [ParsedLogLine(l) EXCEPT
                !.timestamp = zk_match.g1,
                !.level = zk_match.g2,
                !.thread = Str(zk_match.g3.thread),
                !.logger = IF zk_match.g3.cls # "" THEN Str(zk_match.g3.cls) ELSE None,
                !.message = zk_match.g4]
       ELSE [ParsedLogLine(l) EXCEPT
                !.timestamp = java_match.g1,
                !.level = java_match.g2,
                !.thread = java_match.g3,
                !.logger = java_match.g4,
                !.message = java_match.g5]

\* the Java parser with the fallback of the syslog parser
ParseJavaMessageOnly(l) ==
    IF ZK_LOG_PATTERN(l) # None \/ JAVA_LOG_PATTERN(l) # None
    THEN JavaMatched(l)
    ELSE [ParsedLogLine(l) EXCEPT !.message = Txt(l)]

parse_java_line(l) ==
    IF ZK_LOG_PATTERN(l) # None \/ JAVA_LOG_PATTERN(l) # None
    THEN JavaMatched(l)
    ELSE parse_plain_line(l)

parse_syslog_line(l) ==
    LET match == SYSLOG_PATTERN(l) IN
    IF match # None
    THEN [ParsedLogLine(l) EXCEPT
             !.timestamp = match.g1,
             !.extra = Dict(IF Truthy(match.g4)
                            THEN DictOf(<<P("host", match.g2), P("pid", match.g4)>>)
                            ELSE DictOf(<<P("host", match.g2)>>)),
             !.logger = match.g3,
             !.message = match.g5]
    ELSE [ParsedLogLine(l) EXCEPT !.message = Txt(l)]

parse_line(raw_line, f) ==
    LET l == strip(raw_line) IN
    CASE f = "json"            -> parse_json_line(l)
      [] f = "logfmt"          -> parse_logfmt_line(l)
      [] f = "java_structured" -> parse_java_line(l)
      [] f = "syslog"          -> parse_syslog_line(l)
      [] OTHER                 -> parse_plain_line(l)

(***************************************************************************)
(* ingest.py: chunk_text.  Its text is a sequence of one-character tokens. *)
(***************************************************************************)
DEFAULT_OVERLAP == 150

\* the whitespace run at the head of s
RECURSIVE SpaceRun(_)
SpaceRun(s) ==
    IF s # <<>> /\ IsSpace(Head(s)) THEN <<Head(s)>> \o SpaceRun(Tail(s)) ELSE <<>>

\* the position of the last NL of a run, 0 when it has none
LastNL(run) ==
    LET at == {i \in 1..Len(run) : run[i] = NL} IN
    IF at = {} THEN 0 ELSE CHOOSE i \in at : \A j \in at : j <= i

\* re.split(r"\n\s*\n", s): cur is the block being read
RECURSIVE SplitBlocks(_, _)
SplitBlocks(s, cur) ==
    IF s = <<>> THEN <<cur>>
    ELSE LET k == LastNL(SpaceRun(s)) IN
         IF Head(s) = NL /\ k >= 2
         THEN <<cur>> \o SplitBlocks(SubSeq(s, k + 1, Len(s)), <<>>)
         ELSE SplitBlocks(Tail(s), Append(cur, Head(s)))

\* the while loop of push_with_overlap, from position start (0-based)
RECURSIVE Windows(_, _, _, _)
Windows(s, from, mc, ov) ==
    LET end == Min(from + mc, Len(s)) IN
    IF end = Len(s) THEN <<SubSeq(s, from + 1, end)>>
    ELSE <<SubSeq(s, from + 1, end)>> \o Windows(s, Max(0, end - ov), mc, ov)

push_with_overlap(b, mc, ov) ==
    LET s == strip(b) IN
    IF s = <<>> THEN <<>>
    ELSE IF Len(s) <= mc THEN <<s>>
    ELSE Windows(s, 0, mc, ov)

\* the text emitted as it is, neither trimmed nor tested for emptiness
ChunkTextWhole(t, mc, ov) == <<t>>

chunk_text(t, mc, ov) ==
    LET bs == SplitBlocks(strip(t), <<>>) IN
    Flatten([i \in 1..Len(bs) |-> push_with_overlap(bs[i], mc, ov)])

(***************************************************************************)
(* ingest.py: chunk_text called on its own, one action per step.  The text *)
(* is a sequence of one-character tokens: NL, SP and Ch(c).                *)
(***************************************************************************)
\* one character that is no whitespace
Ch(c) == [t |-> "ch", c |-> c]

\* the windows one call may emit before the run is cut off
MaxWindows == 12

\* line 36 with the overlap forgotten
NextStartNoOverlap(end, ov) == end

\* line 36: start = max(0, end - overlap)
NextStart(end, ov) == Max(0, end - ov)

\* lines 20-21
ChunkTextStart ==
    /\ pc = "chunk_text"
    /\ blocks' = SplitBlocks(strip(text), <<>>)
    /\ basic_chunks' = <<>>
    /\ block_no' = 0
    /\ pc' = "blocks"
    /\ UNCHANGED <<text, max_lines, max_chars, fmt, parsed, idx, current_chunk_lines,
                   current_chunk_meta, chunks, stats, raised, parsed_file, line,
                   line_fmt, result, overlap, s_block, start>>
    /\ UNCHANGED <<ingestVars, metaVars>>
    /\ UNCHANGED convVars

\* lines 38-39 and 24-30: the next block enters push_with_overlap
PushWithOverlap ==
    /\ pc = "blocks"
    /\ block_no < Len(blocks)
    /\ LET t == strip(blocks[block_no + 1]) IN
       /\ s_block' = t
       /\ IF t = <<>>
          THEN /\ block_no' = block_no + 1
               /\ UNCHANGED <<basic_chunks, start, pc>>
          ELSE IF Len(t) <= max_chars
          THEN /\ basic_chunks' = Append(basic_chunks, t)
               /\ block_no' = block_no + 1
               /\ UNCHANGED <<start, pc>>
          ELSE /\ start' = 0
               /\ pc' = "window"
               /\ UNCHANGED <<basic_chunks, block_no>>
    /\ UNCHANGED <<text, max_lines, max_chars, fmt, parsed, idx, current_chunk_lines,
                   current_chunk_meta, chunks, stats, raised, parsed_file, line,
                   line_fmt, result, overlap, blocks>>
    /\ UNCHANGED <<ingestVars, metaVars>>
    /\ UNCHANGED convVars

\* one iteration of the while loop of lines 31-36, entered with start < len(s),
\* and the test of line 31 that follows it
WindowStep ==
    /\ pc = "window"
    /\ Len(basic_chunks) < MaxWindows
    /\ LET end == Min(start + max_chars, Len(s_block)) IN
       /\ basic_chunks' = Append(basic_chunks, SubSeq(s_block, start + 1, end))
       /\ IF end = Len(s_block)
          THEN /\ pc' = "blocks"
               /\ block_no' = block_no + 1
               /\ start' = start
          ELSE /\ start' = NextStart(end, overlap)
               /\ IF NextStart(end, overlap) < Len(s_block)
                  THEN UNCHANGED <<pc, block_no>>
                  ELSE /\ pc' = "blocks"
                       /\ block_no' = block_no + 1
    /\ UNCHANGED <<text, max_lines, max_chars, fmt, parsed, idx, current_chunk_lines,
                   current_chunk_meta, chunks, stats, raised, parsed_file, line,
                   line_fmt, result, overlap, blocks, s_block>>
    /\ UNCHANGED <<ingestVars, metaVars>>
    /\ UNCHANGED convVars

\* line 41
ChunkTextReturn ==
    /\ pc = "blocks"
    /\ block_no = Len(blocks)
    /\ pc' = "chunk_text_done"
    /\ UNCHANGED <<text, max_lines, max_chars, fmt, parsed, idx, current_chunk_lines,
                   current_chunk_meta, chunks, stats, raised, parsed_file, line,
                   line_fmt, result, basicVars>>
    /\ UNCHANGED <<ingestVars, metaVars>>
    /\ UNCHANGED convVars

(***************************************************************************)
(* ingest.py: smart_chunk_logs, one action per loop iteration               *)
(***************************************************************************)
FORMAT_SAMPLE == 30

ERROR_LEVELS == {"ERROR", "FATAL", "CRITICAL"}

WARN_LEVELS == {"WARN", "WARNING"}

\* [parse_line(line, fmt) for line in lines if line.strip()]
ParseAll(lines, f) ==
    LET kept == SelectSeq(lines, LAMBDA l : strip(l) # <<>>) IN
    [i \in 1..Len(kept) |-> parse_line(kept[i], f)]

\* (p.level or "").upper() raises AttributeError: the operand is no str
UpperRaises(p) == Truthy(p.level) /\ ~IsStr(p.level)

\* (p.level or "").upper()
LevelUpper(p) == IF Truthy(p.level) THEN Upper(p.level.s) ELSE ""

NewMeta(f) ==
    [first_timestamp |-> None, last_timestamp |-> None,
     error_count |-> 0, warn_count |-> 0, log_format |-> f]

\* lines 102-105 with the test of line 103 forgotten: every timestamp becomes the first
TrackOverwriteFirst(meta, p) ==
    LET m1 == IF Truthy(p.timestamp)
              THEN [meta EXCEPT !.first_timestamp = p.timestamp,
                                !.last_timestamp = p.timestamp]
              ELSE meta
        level == LevelUpper(p)
    IN IF level \in ERROR_LEVELS THEN [m1 EXCEPT !.error_count = @ + 1]
       ELSE IF level \in WARN_LEVELS THEN [m1 EXCEPT !.warn_count = @ + 1]
       ELSE m1

\* lines 101-112: the metadata after parsed line p is counted
Track(meta, p) ==
    LET m1 == IF Truthy(p.timestamp)
              THEN [meta EXCEPT
                       !.first_timestamp =
                           IF meta.first_timestamp = None THEN p.timestamp ELSE @,
                       !.last_timestamp = p.timestamp]
              ELSE meta
        level == LevelUpper(p)
    IN IF level \in ERROR_LEVELS THEN [m1 EXCEPT !.error_count = @ + 1]
       ELSE IF level \in WARN_LEVELS THEN [m1 EXCEPT !.warn_count = @ + 1]
       ELSE m1

\* sum(len(l) for l in current_chunk_lines)
TotalChars(ls) == SumSeq([i \in 1..Len(ls) |-> StrLen(ls[i].toks)])

\* the split test with the character bound forgotten
ShouldSplitLinesOnly(ls, ml, mc) == Len(ls) >= ml

\* the split test with the line bound off by one
ShouldSplitOffByOne(ls, ml, mc) == Len(ls) > ml \/ TotalChars(ls) >= mc

\* lines 118-121
ShouldSplit(ls, ml, mc) == Len(ls) >= ml \/ TotalChars(ls) >= mc

\* the dict flush_chunk appends
ChunkOf(ls, meta) ==
    [text |-> Txt(join([i \in 1..Len(ls) |-> ls[i].toks])), metadata |-> meta]

\* lines 59-80 of smart_chunk_logs: split, detect, parse, and the two early returns
SmartChunkStart ==
    /\ pc = "chunk"
    /\ LET lines == splitlines(text)
           f == detect_format(Take(lines, FORMAT_SAMPLE))
           ps == ParseAll(lines, f)
       IN IF lines = <<>>
          THEN /\ chunks' = <<>>
               /\ pc' = "done"
               /\ UNCHANGED <<fmt, parsed, current_chunk_meta>>
          ELSE IF ps = <<>>
          THEN /\ chunks' = [i \in 1..Len(chunk_text(text, max_chars, DEFAULT_OVERLAP)) |->
                               [text |-> Txt(chunk_text(text, max_chars, DEFAULT_OVERLAP)[i]),
                                metadata |-> EmptyDict]]
               /\ fmt' = f
               /\ pc' = "done"
               /\ UNCHANGED <<parsed, current_chunk_meta>>
          ELSE /\ fmt' = f
               /\ parsed' = ps
               /\ current_chunk_meta' = NewMeta(f)
               /\ chunks' = <<>>
               /\ pc' = "loop"
    /\ idx' = 0
    /\ current_chunk_lines' = <<>>
    /\ UNCHANGED <<text, max_lines, max_chars, stats, raised, parsed_file, line, line_fmt, result>>
    /\ UNCHANGED <<ingestVars, basicVars, metaVars>>
    /\ UNCHANGED convVars

\* one iteration of the loop of lines 98-124, the flush included
ChunkStep ==
    /\ pc = "loop"
    /\ idx < Len(parsed)
    /\ LET p == parsed[idx + 1]
           ls == Append(current_chunk_lines, p.raw)
       IN IF UpperRaises(p)
          THEN /\ raised' = "AttributeError"
               /\ pc' = "raised"
               /\ UNCHANGED <<idx, current_chunk_lines, current_chunk_meta, chunks>>
          ELSE /\ idx' = idx + 1
               /\ raised' = raised
               /\ pc' = pc
               /\ IF ShouldSplit(ls, max_lines, max_chars)
                  THEN /\ chunks' = Append(chunks, ChunkOf(ls, Track(current_chunk_meta, p)))
                       /\ current_chunk_lines' = <<>>
                       /\ current_chunk_meta' = NewMeta(current_chunk_meta.log_format)
                  ELSE /\ chunks' = chunks
                       /\ current_chunk_lines' = ls
                       /\ current_chunk_meta' = Track(current_chunk_meta, p)
    /\ UNCHANGED <<text, max_lines, max_chars, fmt, parsed, stats, parsed_file, line, line_fmt, result>>
    /\ UNCHANGED <<ingestVars, basicVars, metaVars>>
    /\ UNCHANGED convVars

\* the return with the flush after the loop forgotten
ChunkFinishNoFlush ==
    /\ pc = "loop"
    /\ idx = Len(parsed)
    /\ pc' = "done"
    /\ UNCHANGED <<text, max_lines, max_chars, fmt, parsed, idx, current_chunk_lines,
                   current_chunk_meta, chunks, stats, raised, parsed_file, line,
                   line_fmt, result>>
    /\ UNCHANGED <<ingestVars, basicVars, metaVars>>
    /\ UNCHANGED convVars

\* the flush after the loop (line 126) and the return
ChunkFinish ==
    /\ pc = "loop"
    /\ idx = Len(parsed)
    /\ IF current_chunk_lines # <<>>
       THEN /\ chunks' = Append(chunks, ChunkOf(current_chunk_lines, current_chunk_meta))
            /\ current_chunk_lines' = <<>>
            /\ current_chunk_meta' = NewMeta(current_chunk_meta.log_format)
       ELSE UNCHANGED <<chunks, current_chunk_lines, current_chunk_meta>>
    /\ pc' = "done"
    /\ UNCHANGED <<text, max_lines, max_chars, fmt, parsed, idx, stats, raised,
                   parsed_file, line, line_fmt, result>>
    /\ UNCHANGED <<ingestVars, basicVars, metaVars>>
    /\ UNCHANGED convVars

(***************************************************************************)
(* parsers.py: parse_log_file                                              *)
(***************************************************************************)
ParseLogFile ==
    /\ pc = "parse_log_file"
    /\ LET lines == splitlines(text)
           f == detect_format(lines)
       IN parsed_file' = [fmt |-> f, parsed |-> ParseAll(lines, f)]
    /\ pc' = "stats"
    /\ UNCHANGED <<text, max_lines, max_chars, fmt, parsed, idx, current_chunk_lines,
                   current_chunk_meta, chunks, stats, raised, line, line_fmt, result>>
    /\ UNCHANGED <<ingestVars, basicVars, metaVars>>
    /\ UNCHANGED convVars

(***************************************************************************)
(* ingest.py: extract_log_stats                                            *)
(***************************************************************************)
LOGGERS_CAP == 20

\* the logger names of the files of many loggers
LoggerNames ==
    <<"l01", "l02", "l03", "l04", "l05", "l06", "l07", "l08", "l09", "l10", "l11",
      "l12", "l13", "l14", "l15", "l16", "l17", "l18", "l19", "l20", "l21", "l22">>

\* the strings of the corpora that can become a logger, in the order of Python's str <
StrOrder ==
    <<"QuorumPeer", "api", "com.foo.Bar", "db", "db.go:42">> \o LoggerNames
    \o <<"sshd", "web">>

StrRank(s) == CHOOSE i \in 1..Len(StrOrder) : StrOrder[i] = s

SortKey(v) == IF v.ty = "str" THEN StrRank(v.s) ELSE IF v.ty = "num" THEN v.n ELSE 0

\* sorted(list(S), reverse=True) in place of sorted(list(S))
RECURSIVE SortedLargestFirst(_)
SortedLargestFirst(S) ==
    IF S = {} THEN <<>>
    ELSE LET m == CHOOSE x \in S : \A y \in S : SortKey(x) >= SortKey(y)
         IN <<m>> \o SortedLargestFirst(S \ {m})

\* sorted(list(S)) for values of one kind
RECURSIVE Sorted(_)
Sorted(S) ==
    IF S = {} THEN <<>>
    ELSE LET m == CHOOSE x \in S : \A y \in S : SortKey(x) <= SortKey(y)
         IN <<m>> \o Sorted(S \ {m})

\* stats["loggers"].add(p.logger) raises TypeError: a dict is unhashable
AddRaises(p) == Truthy(p.logger) /\ p.logger.ty = "obj"

\* sorted() raises TypeError: str and int do not compare
SortRaises(S) == \E x, y \in S : (x.ty = "str") # (y.ty = "str")

\* the level compared as it is written, without .upper()
CountLevelAsWritten(ps, names) ==
    Cardinality({i \in 1..Len(ps) : Truthy(ps[i].level) /\ ps[i].level.s \in names})

\* lines 186-194: the lines whose level, upper-cased, is one of names
CountLevel(ps, names) ==
    Cardinality({i \in 1..Len(ps) : LevelUpper(ps[i]) \in names})

Stamped(ps) == {i \in 1..Len(ps) : Truthy(ps[i].timestamp)}

FirstTimestamp(ps) ==
    IF Stamped(ps) = {} THEN None
    ELSE ps[CHOOSE i \in Stamped(ps) : \A j \in Stamped(ps) : i <= j].timestamp

LastTimestamp(ps) ==
    IF Stamped(ps) = {} THEN None
    ELSE ps[CHOOSE i \in Stamped(ps) : \A j \in Stamped(ps) : i >= j].timestamp

LoggerSet(ps) == {ps[i].logger : i \in {j \in 1..Len(ps) : Truthy(ps[j].logger)}}

\* the dict extract_log_stats returns when nothing raises
StatsOf(ps, f) ==
    [total_lines |-> Len(ps),
     format |-> f,
     error_count |-> CountLevel(ps, ERROR_LEVELS),
     warn_count |-> CountLevel(ps, WARN_LEVELS),
     info_count |-> CountLevel(ps, {"INFO"}),
     debug_count |-> CountLevel(ps, {"DEBUG", "TRACE"}),
     first_timestamp |-> FirstTimestamp(ps),
     last_timestamp |-> LastTimestamp(ps),
     loggers |-> Take(Sorted(LoggerSet(ps)), LOGGERS_CAP)]

\* the exception that leaves extract_log_stats, "" when it returns
StatsException(ps) ==
    LET bad == {i \in 1..Len(ps) : UpperRaises(ps[i]) \/ AddRaises(ps[i])} IN
    IF bad # {}
    THEN LET i == CHOOSE k \in bad : \A j \in bad : k <= j IN
         IF UpperRaises(ps[i]) THEN "AttributeError" ELSE "TypeError"
    ELSE IF SortRaises(LoggerSet(ps)) THEN "TypeError"
    ELSE ""

ExtractLogStats ==
    /\ pc = "stats"
    /\ LET lines == splitlines(text)
           f == detect_format(Take(lines, FORMAT_SAMPLE))
           ps == ParseAll(lines, f)
       IN IF StatsException(ps) # ""
          THEN /\ raised' = StatsException(ps)
               /\ stats' = None
          ELSE /\ raised' = ""
               /\ stats' = StatsOf(ps, f)
    /\ pc' = "chunk"
    /\ UNCHANGED <<text, max_lines, max_chars, fmt, parsed, idx, current_chunk_lines,
                   current_chunk_meta, chunks, parsed_file, line, line_fmt, result>>
    /\ UNCHANGED <<ingestVars, basicVars, metaVars>>
    /\ UNCHANGED convVars

(***************************************************************************)
(* ingest.py: detect_metadata                                              *)
(***************************************************************************)
META_SCAN == 20

\* the whole chunk in place of its first lines
ScanWindowAll(lines) == lines

\* lines[:20]
ScanWindow(lines) == Take(lines, META_SCAN)

\* TS_RE.match(l): the first 19 characters of l when a timestamp opens it, or None
TS_RE(l) == IF l # <<>> /\ l[1].t = "ts" THEN Str(l[1].s) ELSE None

\* LEVEL_RE.search(l): group(1) of the first keyword of l, or None
LEVEL_RE(l) ==
    LET hits == SelectSeq(LineStrings(l),
                          LAMBDA x : Upper(x) \in ERROR_LEVELS \cup WARN_LEVELS)
    IN IF hits = <<>> THEN None ELSE Str(hits[1])

\* found_level of a line of the window, "" when LEVEL_RE finds nothing
FoundLevel(ln) ==
    LET level_match == LEVEL_RE(strip(ln)) IN
    IF level_match = None THEN "" ELSE Upper(level_match.s)

detect_metadata(c, name) ==
    LET lines == ScanWindow(splitlines(c))
        stamped == {i \in 1..Len(lines) : TS_RE(strip(lines[i])) # None}
        found == {i \in 1..Len(lines) : FoundLevel(lines[i]) # ""}
    IN [filename |-> name,
        timestamp |-> IF stamped = {} THEN None
                      ELSE TS_RE(strip(lines[CHOOSE i \in stamped : \A j \in stamped : i <= j])),
        level |-> IF found = {} THEN None
                  ELSE Str(FoundLevel(lines[CHOOSE i \in found : \A j \in found : i <= j])),
        error_count |-> Cardinality({i \in found : FoundLevel(lines[i]) \in ERROR_LEVELS}),
        warn_count |-> Cardinality({i \in found : FoundLevel(lines[i]) \in WARN_LEVELS})]

DetectMetadata ==
    /\ pc = "detect_metadata"
    /\ chunk_meta' = detect_metadata(chunk, filename)
    /\ pc' = "metadata_done"
    /\ UNCHANGED <<text, max_lines, max_chars, fmt, parsed, idx, current_chunk_lines,
                   current_chunk_meta, chunks, stats, raised, parsed_file, line,
                   line_fmt, result, chunk, filename>>
    /\ UNCHANGED <<ingestVars, basicVars>>
    /\ UNCHANGED convVars

(***************************************************************************)
(* main.py: ingest, from the chunks to the lists handed to embedding       *)
(***************************************************************************)
BASIC_MAX_CHARS == 1000

\* the fields of a metadata dict: those of a record, those of the wrapped dict
FieldsOf(d) == IF "ty" \in DOMAIN d THEN d.d ELSE d

\* dict.setdefault for every key: the values already there are kept
UpdateKeepsOld(d, other) ==
    [k \in DOMAIN FieldsOf(d) \cup DOMAIN FieldsOf(other) |->
        IF k \in DOMAIN FieldsOf(d) THEN FieldsOf(d)[k] ELSE FieldsOf(other)[k]]

\* d.update(other): the values of other replace those of d
Update(d, other) ==
    [k \in DOMAIN FieldsOf(d) \cup DOMAIN FieldsOf(other) |->
        IF k \in DOMAIN FieldsOf(other) THEN FieldsOf(other)[k] ELSE FieldsOf(d)[k]]

\* lines 100-102: the sort key
Score(m) ==
    (IF "error_count" \in DOMAIN m THEN m.error_count ELSE 0) * 10
    + (IF "warn_count" \in DOMAIN m THEN m.warn_count ELSE 0)

\* the place of chunk i when the chunks are kept in the order they came
PlaceByPosition(ms, i) == i - 1

\* lines 99-102: the place of chunk i after the stable sort by descending
\* score, counted from 0
Place(ms, i) ==
    Cardinality({j \in 1..Len(ms) :
        Score(ms[j]) > Score(ms[i]) \/ (Score(ms[j]) = Score(ms[i]) /\ j < i)})

\* lines 105-106: the positions of the chunks kept, in ascending order
Selected(ms, cap) == Ascending({i \in 1..Len(ms) : Place(ms, i) < cap})

\* lines 79-89: the texts and the metadata of the chunks
IngestMetas ==
    /\ pc = "done"
    /\ raised = ""
    /\ IF chunks # <<>>
       THEN /\ chunk_texts' = [i \in 1..Len(chunks) |-> chunks[i].text.toks]
            /\ metas' = [i \in 1..Len(chunks) |->
                            Update(detect_metadata(chunks[i].text.toks, filename),
                                   chunks[i].metadata)]
       ELSE LET basic == chunk_text(text, BASIC_MAX_CHARS, DEFAULT_OVERLAP) IN
            /\ chunk_texts' = basic
            /\ metas' = [i \in 1..Len(basic) |-> detect_metadata(basic[i], filename)]
    /\ pc' = "select"
    /\ UNCHANGED <<text, max_lines, max_chars, fmt, parsed, idx, current_chunk_lines,
                   current_chunk_meta, chunks, stats, raised, parsed_file, line,
                   line_fmt, result, MAX_CHUNKS>>
    /\ UNCHANGED <<basicVars, metaVars>>
    /\ UNCHANGED convVars

\* lines 91-110: the chunks kept when there are more than MAX_CHUNKS
IngestSelect ==
    /\ pc = "select"
    /\ IF Len(chunk_texts) > MAX_CHUNKS
       THEN LET selected == Selected(metas, MAX_CHUNKS) IN
            /\ chunk_texts' = [k \in 1..Len(selected) |-> chunk_texts[selected[k]]]
            /\ metas' = [k \in 1..Len(selected) |-> metas[selected[k]]]
       ELSE UNCHANGED <<chunk_texts, metas>>
    /\ pc' = "embed"
    /\ UNCHANGED <<text, max_lines, max_chars, fmt, parsed, idx, current_chunk_lines,
                   current_chunk_meta, chunks, stats, raised, parsed_file, line,
                   line_fmt, result, MAX_CHUNKS>>
    /\ UNCHANGED <<basicVars, metaVars>>
    /\ UNCHANGED convVars

(***************************************************************************)
(* main.py: analyze.  The endpoint is a plain def, which the framework     *)
(* runs on a pool of threads: requests interleave, here statement by       *)
(* statement, on the process-wide dict conversations.                      *)
(***************************************************************************)
\* the requests of one run
MaxRequests == 3

Requests == 1..MaxRequests

\* req.question of request r: every request asks a question of its own
Question(r) == "q" \o ToString(r)

\* the summary read from the reply of the model to request r
Summary(r) == "a" \o ToString(r)

\* req.conversation_id: absent, empty, or an id the client sends
SuppliedIds == {None, Str(""), Str("conv_1"), Str("chat")}

\* f"conv_{len(conversations)}"
NewConvId == Str("conv_" \o ToString(Cardinality(DOMAIN conversations)))

\* conversations[key] = value
SetItem(d, key, value) ==
    [k \in DOMAIN d \cup {key} |-> IF k = key THEN value ELSE d[k]]

\* the request arrives and the search finds no chunk: it returns at once,
\* with conversation_id=None
AnalyzeNoHits(r) ==
    /\ where[r] = "idle"
    /\ \E id \in SuppliedIds :
          req' = [req EXCEPT ![r] = [question |-> Question(r), conversation_id |-> id]]
    /\ response' = [response EXCEPT ![r] = None]
    /\ where' = [where EXCEPT ![r] = "returned"]
    /\ UNCHANGED <<conversations, conv_id>>
    /\ UNCHANGED pipelineVars

\* the request arrives, the search finds chunks, conv_id is read from the
\* request and the model answers
AnalyzeAsk(r) ==
    /\ where[r] = "idle"
    /\ \E id \in SuppliedIds :
          /\ req' = [req EXCEPT ![r] = [question |-> Question(r), conversation_id |-> id]]
          /\ conv_id' = [conv_id EXCEPT ![r] = id]
    /\ where' = [where EXCEPT ![r] = "assign"]
    /\ UNCHANGED <<conversations, response>>
    /\ UNCHANGED pipelineVars

\* if not conv_id: conv_id = f"conv_{len(conversations)}"
AssignId(r) ==
    /\ where[r] = "assign"
    /\ conv_id' = [conv_id EXCEPT ![r] = IF ~Truthy(@) THEN NewConvId ELSE @]
    /\ where' = [where EXCEPT ![r] = "test"]
    /\ UNCHANGED <<conversations, req, response>>
    /\ UNCHANGED pipelineVars

\* if conv_id not in conversations:
TestHistory(r) ==
    /\ where[r] = "test"
    /\ where' = [where EXCEPT ![r] = IF conv_id[r].s \notin DOMAIN conversations
                                      THEN "create" ELSE "append"]
    /\ UNCHANGED <<conversations, req, conv_id, response>>
    /\ UNCHANGED pipelineVars

\* conversations[conv_id] = []
CreateHistory(r) ==
    /\ where[r] = "create"
    /\ conversations' = SetItem(conversations, conv_id[r].s, <<>>)
    /\ where' = [where EXCEPT ![r] = "append"]
    /\ UNCHANGED <<req, conv_id, response>>
    /\ UNCHANGED pipelineVars

\* conversations[conv_id].append({"q": req.question, "a": summary})
AppendExchange(r) ==
    /\ where[r] = "append"
    /\ conversations' = [conversations EXCEPT ![conv_id[r].s] =
                            Append(@, [q |-> req[r].question, a |-> Summary(r)])]
    /\ where' = [where EXCEPT ![r] = "return"]
    /\ UNCHANGED <<req, conv_id, response>>
    /\ UNCHANGED pipelineVars

\* return AnalyzeResponse(..., conversation_id=conv_id)
AnalyzeReturn(r) ==
    /\ where[r] = "return"
    /\ response' = [response EXCEPT ![r] = conv_id[r]]
    /\ where' = [where EXCEPT ![r] = "returned"]
    /\ UNCHANGED <<conversations, req, conv_id>>
    /\ UNCHANGED pipelineVars

(***************************************************************************)
(* The calls on one text                                                   *)
(***************************************************************************)
DEFAULT_MAX_CHARS == 2000

\* the longest text of the runs, in lines
MaxTextLines == 5

\* the largest max_lines argument of the runs
MaxLinesArg == 2

\* the small max_chars argument of the runs
SmallMaxChars == 25

BlankLine == <<SP>>

PlainLine == <<SP, Word("ERROR"), SP, Word("disk"), SP>>

JsonLine ==
    <<Json(<<P("level", Str("warn")), P("ts", Str("2024-01-01T00:00:00")),
             P("logger", Str("db"))>>)>>

JsonNumLine == <<Json(<<P("level", Num(5)), P("logger", Str("api"))>>)>>

ChunkCorpus == {BlankLine, PlainLine, JsonLine, JsonNumLine}

SeqsUpTo(S, n) == UNION {[1..k -> S] : k \in 0..n}

\* no call is running on these variables
IdleChunker ==
    /\ fmt = "plain"
    /\ parsed = <<>>
    /\ idx = 0
    /\ current_chunk_lines = <<>>
    /\ current_chunk_meta = NewMeta("plain")
    /\ chunks = <<>>
    /\ stats = None
    /\ raised = ""
    /\ parsed_file = None

IdleParser ==
    /\ line = <<>>
    /\ line_fmt = "plain"
    /\ result = None

\* config.py: MAX_CHUNKS when the environment does not set it
DEFAULT_MAX_CHUNKS == 50

\* no call of the ingest endpoint is running
IdleIngest ==
    /\ MAX_CHUNKS = DEFAULT_MAX_CHUNKS
    /\ chunk_texts = <<>>
    /\ metas = <<>>

\* no call of chunk_text is running on its own
IdleBasic ==
    /\ overlap = DEFAULT_OVERLAP
    /\ blocks = <<>>
    /\ block_no = 0
    /\ s_block = <<>>
    /\ start = 0
    /\ basic_chunks = <<>>

\* no call of detect_metadata is running on its own
IdleMeta ==
    /\ chunk = <<>>
    /\ filename = ""
    /\ chunk_meta = None

\* the process has just started: conversations: dict = {}, no request yet
IdleAnalyze ==
    /\ conversations = [k \in {} |-> <<>>]
    /\ req = [r \in Requests |-> None]
    /\ where = [r \in Requests |-> "idle"]
    /\ conv_id = [r \in Requests |-> None]
    /\ response = [r \in Requests |-> None]

Init ==
    /\ \E ls \in SeqsUpTo(ChunkCorpus, MaxTextLines) : text = join(ls)
    /\ max_lines \in 1..MaxLinesArg
    /\ max_chars \in {SmallMaxChars, DEFAULT_MAX_CHARS}
    /\ pc = "parse_log_file"
    /\ IdleChunker
    /\ IdleParser
    /\ IdleIngest
    /\ IdleBasic
    /\ IdleMeta
    /\ IdleAnalyze

Next == ParseLogFile \/ ExtractLogStats \/ SmartChunkStart \/ ChunkStep \/ ChunkFinish

Spec == Init /\ [][Next]_vars

(***************************************************************************)
(* Properties of smart_chunk_logs and extract_log_stats                    *)
(***************************************************************************)
IsBlank(l) == \A i \in 1..Len(l) : IsSpace(l[i])

NotBlank(l) == ~IsBlank(l)

\* the non-blank lines of the input text, in order
NonBlankLines == SelectSeq(splitlines(text), NotBlank)

\* the lines of the emitted chunks, in chunk order
ChunkLines(c) == splitlines(c.text.toks)

EmittedLines == Flatten([i \in 1..Len(chunks) |-> ChunkLines(chunks[i])])

CharsOf(ls) == SumSeq([i \in 1..Len(ls) |-> StrLen(ls[i])])

Returned == pc = "done"

CeilDiv(n, m) == (n + m - 1) \div m

\* C1: when smart_chunk_logs returns, the lines of its chunks, concatenated in
\* chunk order, are exactly the raws of the non-blank input lines, in input
\* order: the k-th entry is the raw of the k-th non-blank line, none is dropped,
\* duplicated or reordered.
C1_Partition ==
    Returned =>
        /\ Len(EmittedLines) = Len(NonBlankLines)
        /\ \A k \in 1..Len(NonBlankLines) :
              EmittedLines[k] = parse_line(NonBlankLines[k], fmt).raw.toks

\* a returned run over blank and padded lines that emitted several chunks
C1_Witness ==
    /\ Returned
    /\ Len(chunks) >= 2
    /\ Len(NonBlankLines) >= 3
    /\ Len(splitlines(text)) > Len(NonBlankLines)
    /\ \E k \in 1..Len(NonBlankLines) : NonBlankLines[k] # strip(NonBlankLines[k])

NoCharBound == \A i \in 1..Len(chunks) : CharsOf(ChunkLines(chunks[i])) < max_chars

C6_NeverRaises == raised = ""

(***************************************************************************)
(* parse_line on one line                                                  *)
(***************************************************************************)
STAMP == "2024-01-01 00:00:00"

ZkLine ==
    <<Ts(STAMP, ",123"), SP, Dash, SP, Word("WARN"), SP, Br("main", "QuorumPeer"),
      SP, Dash, SP, Word("started")>>

JavaLine ==
    <<Ts(STAMP, ",123"), SP, Word("ERROR"), SP, Br("main", ""), SP,
      Word("com.foo.Bar"), SP, Word("connection"), SP, Word("refused")>>

SyslogLine ==
    <<SysTs("Jan  1 00:00:00"), SP, Word("myhost"), SP, Proc("sshd", "1234"), SP,
      Word("Failed"), SP, Word("password")>>

SyslogNoPidLine ==
    <<SysTs("Jan  1 00:00:00"), SP, Word("myhost"), SP, Proc("web", ""), SP,
      Word("started")>>

LogfmtLine ==
    <<Kv("time", "2024-01-01T00:00:00"), SP, Kv("level", "warn"), SP,
      Kv("msg", "slow"), SP, Kv("caller", "db.go:42")>>

LogfmtCaseLine == <<Kv("Level", "INFO"), SP, Kv("level", "warn"), SP, Kv("MSG", "hi")>>

StampedLine == <<Ts("2024-01-02 10:00:00", ""), SP, Word("error"), SP, Word("disk")>>

WordsLine == <<Word("hello"), SP, Word("world")>>

BadJsonLine == <<LBrace, Word("critical"), SP, Word("failure")>>

JsonArrLine == <<JsonArr>>

FixedLines ==
    {ZkLine, JavaLine, SyslogLine, SyslogNoPidLine, LogfmtLine, LogfmtCaseLine,
     StampedLine, WordsLine, BadJsonLine, JsonArrLine, JsonLine, JsonNumLine}

\* what a key of a generated line holds
Holds == {"absent", "truthy", "empty", "zero", "false", "null"}

\* the JSON value of key k: a truthy value names its key
JsonValue(k, h) ==
    CASE h = "truthy" -> Str(k)
      [] h = "empty"  -> Str("")
      [] h = "zero"   -> Num(0)
      [] h = "false"  -> Bool(FALSE)
      [] h = "null"   -> None

JSON_FAMILIES ==
    {<<"timestamp", "time", "@timestamp", "ts">>,
     <<"level", "severity", "log_level">>,
     <<"message", "msg", "log">>,
     <<"logger", "name", "source">>,
     <<"thread", "thread_name">>}

LOGFMT_FAMILIES ==
    {<<"time", "timestamp", "ts">>,
     <<"level", "lvl", "severity">>,
     <<"msg", "message">>,
     <<"logger", "component", "caller">>}

\* the members a family contributes under the assignment a, and the other member
Members(F, a, other) ==
    Flatten([i \in 1..Len(F) |->
        IF a[i] = "absent" THEN <<>> ELSE <<P(F[i], JsonValue(F[i], a[i]))>>])
    \o (IF other THEN <<P("user", Str("u"))>> ELSE <<>>)

JsonLines ==
    {<<Json(Members(F, a, other))>> :
        <<F, a, other>> \in
            UNION {{F} \X [1..Len(F) -> Holds] \X BOOLEAN : F \in JSON_FAMILIES}}

\* key=value tokens separated by one space
RECURSIVE Spaced(_)
Spaced(toks) ==
    IF Len(toks) <= 1 THEN toks ELSE <<toks[1], SP>> \o Spaced(Tail(toks))

KvTokens(F, a, other) ==
    Flatten([i \in 1..Len(F) |->
        IF a[i] = "absent" THEN <<>>
        ELSE <<Kv(F[i], IF a[i] = "truthy" THEN F[i] ELSE "")>>])
    \o (IF other THEN <<Kv("user", "u")>> ELSE <<>>)

LogfmtLines ==
    {Spaced(KvTokens(F, a, other)) :
        <<F, a, other>> \in
            UNION {{F} \X [1..Len(F) -> {"absent", "truthy", "empty"}] \X BOOLEAN :
                      F \in LOGFMT_FAMILIES}}

\* the line with whitespace around it
Padded(l) == <<SP>> \o l \o <<SP, SP>>

ParseLines ==
    FixedLines \cup {Padded(l) : l \in FixedLines} \cup {<<>>, <<SP>>}
        \cup JsonLines \cup LogfmtLines

ParseLine ==
    /\ pc = "parse"
    /\ result' = parse_line(line, line_fmt)
    /\ pc' = "parsed"
    /\ UNCHANGED <<text, max_lines, max_chars, fmt, parsed, idx, current_chunk_lines,
                   current_chunk_meta, chunks, stats, raised, parsed_file, line,
                   line_fmt>>
    /\ UNCHANGED <<ingestVars, basicVars, metaVars>>
    /\ UNCHANGED convVars

InitParse ==
    /\ line \in ParseLines
    /\ line_fmt \in LogFormat
    /\ result = None
    /\ pc = "parse"
    /\ text = <<>>
    /\ max_lines = 1
    /\ max_chars = 1
    /\ IdleChunker
    /\ IdleIngest
    /\ IdleBasic
    /\ IdleMeta
    /\ IdleAnalyze

NextParse == ParseLine

SpecParse == InitParse /\ [][NextParse]_vars

(***************************************************************************)
(* Properties of parse_line                                                *)
(***************************************************************************)
Parsed == pc = "parsed"

\* the line without the whitespace at its two ends
Trimmed(l) ==
    LET inside == {i \in 1..Len(l) : ~IsSpace(l[i])} IN
    IF inside = {} THEN <<>>
    ELSE SubSeq(l, CHOOSE i \in inside : \A j \in inside : i <= j,
                   CHOOSE i \in inside : \A j \in inside : i >= j)

\* the format-specific rule of format f cannot parse the trimmed line l
Unparseable(l, f) ==
    CASE f = "json"            -> ~(Len(l) = 1 /\ l[1].t = "json")
      [] f = "logfmt"          -> \A i \in 1..Len(l) : l[i].t # "kv"
      [] f = "java_structured" -> ZK_LOG_PATTERN(l) = None /\ JAVA_LOG_PATTERN(l) = None
      [] f = "syslog"          -> SYSLOG_PATTERN(l) = None
      [] OTHER                 -> FALSE

\* the ParsedLine of PLAIN parsing: message is the line, timestamp and level
\* are what the whole-line searches find
PlainResult(l) ==
    [raw |-> Txt(l),
     timestamp |-> TIMESTAMP_PATTERN(l),
     level |-> IF LEVEL_PATTERN(l) = None THEN None ELSE Str(Upper(LEVEL_PATTERN(l).s)),
     message |-> Txt(l), logger |-> None, thread |-> None, extra |-> None]

\* C7 as stated: under every detected format a line its rule cannot parse gets
\* the ParsedLine of PLAIN parsing.
C7_AllDegradeToPlain ==
    (Parsed /\ Unparseable(Trimmed(line), line_fmt)) => result = PlainResult(Trimmed(line))

\* C7: a line the Java patterns do not match gets the ParsedLine of PLAIN
\* parsing; under JSON and SYSLOG an unparseable line gets message = the line
\* and every other field unset, whatever the whole-line searches would find;
\* under LOGFMT a line without key=value token gets every named attribute
\* unset, message included, and an empty extra.
C7_Degrade ==
    (Parsed /\ Unparseable(Trimmed(line), line_fmt)) =>
        LET l == Trimmed(line) IN
        CASE line_fmt = "java_structured" -> result = PlainResult(l)
          [] line_fmt \in {"json", "syslog"} ->
                result = [raw |-> Txt(l), timestamp |-> None, level |-> None,
                          message |-> Txt(l), logger |-> None, thread |-> None,
                          extra |-> None]
          [] line_fmt = "logfmt" ->
                result = [raw |-> Txt(l), timestamp |-> None, level |-> None,
                          message |-> None, logger |-> None, thread |-> None,
                          extra |-> EmptyDict]

\* a padded line with a timestamp and a level that the Java patterns do not
\* match, parsed under JAVA_STRUCTURED
C7_Witness ==
    /\ Parsed
    /\ line_fmt = "java_structured"
    /\ Unparseable(Trimmed(line), line_fmt)
    /\ result.timestamp # None
    /\ result.level = Str("ERROR")
    /\ line # Trimmed(line)

IsJsonObject(l) == Len(l) = 1 /\ l[1].t = "json"

\* the members of the JSON line, by key
Data == DictOf(Trimmed(line)[1].pairs)

JsonSynonyms ==
    [timestamp |-> <<"timestamp", "time", "@timestamp", "ts">>,
     level |-> <<"level", "severity", "log_level">>,
     message |-> <<"message", "msg", "log">>,
     logger |-> <<"logger", "name", "source">>,
     thread |-> <<"thread", "thread_name">>]

LogfmtSynonyms ==
    [timestamp |-> <<"time", "timestamp", "ts">>,
     level |-> <<"level", "lvl", "severity">>,
     message |-> <<"msg", "message">>,
     logger |-> <<"logger", "component", "caller">>]

Present(d, keys) == {i \in 1..Len(keys) : keys[i] \in DOMAIN d}

\* the value of the first key of keys that d has, None when it has none
FirstPresent(d, keys) ==
    IF Present(d, keys) = {} THEN None
    ELSE d[keys[CHOOSE i \in Present(d, keys) : \A j \in Present(d, keys) : i <= j]]

TruthyAt(d, keys) == {i \in Present(d, keys) : Truthy(d[keys[i]])}

\* the position in keys of the key whose value the attribute takes, 0 when the
\* attribute stays unset: the first key with a truthy value, else the last key
StoredAt(d, keys) ==
    IF TruthyAt(d, keys) # {}
    THEN CHOOSE i \in TruthyAt(d, keys) : \A j \in TruthyAt(d, keys) : i <= j
    ELSE IF Len(keys) \in Present(d, keys) THEN Len(keys) ELSE 0

StoredValue(d, keys) == IF StoredAt(d, keys) = 0 THEN None ELSE d[keys[StoredAt(d, keys)]]

\* C8 as stated: each attribute of a JSON line is the value of the first key
\* present, whatever that value is.
C8_FirstPresent ==
    (Parsed /\ line_fmt = "json" /\ IsJsonObject(Trimmed(line))) =>
        \A a \in DOMAIN JsonSynonyms : result[a] = FirstPresent(Data, JsonSynonyms[a])

\* C8: each attribute of a JSON line is the value of the first listed key
\* whose value is truthy; a key holding "", 0, false or null is passed over like
\* an absent one; when no listed key holds a truthy value the attribute is what
\* the last listed key holds, unset when that key is absent.
C8_FirstTruthy ==
    (Parsed /\ line_fmt = "json" /\ IsJsonObject(Trimmed(line))) =>
        \A a \in DOMAIN JsonSynonyms : result[a] = StoredValue(Data, JsonSynonyms[a])

\* a JSON line whose level is "" and whose severity is set: the level is the severity
C8_Witness ==
    /\ Parsed
    /\ line_fmt = "json"
    /\ IsJsonObject(Trimmed(line))
    /\ "level" \in DOMAIN Data /\ Data["level"] = Str("")
    /\ "severity" \in DOMAIN Data
    /\ result.level = Str("severity")

\* the fields of a JSON or LOGFMT line, by key, and the synonym lists of its format
Fields ==
    IF line_fmt = "json" THEN Data
    ELSE LET kvs == SelectSeq(Trimmed(line), IsKv) IN
         DictOf([i \in 1..Len(kvs) |-> P(Lower(kvs[i].k), Str(kvs[i].v))])

Synonyms == IF line_fmt = "json" THEN JsonSynonyms ELSE LogfmtSynonyms

SynonymKeys == UNION {{Synonyms[a][i] : i \in 1..Len(Synonyms[a])} : a \in DOMAIN Synonyms}

HasFields ==
    \/ line_fmt = "json" /\ IsJsonObject(Trimmed(line))
    \/ line_fmt = "logfmt"

\* C9 as stated: every key of a JSON or LOGFMT line is the key whose value was
\* stored in a named attribute, or an entry of extra with its value.
C9_NoFieldLost ==
    (Parsed /\ HasFields) =>
        \A k \in DOMAIN Fields :
            \/ k \in DOMAIN result.extra.d /\ result.extra.d[k] = Fields[k]
            \/ \E a \in DOMAIN Synonyms :
                  /\ StoredAt(Fields, Synonyms[a]) # 0
                  /\ k = Synonyms[a][StoredAt(Fields, Synonyms[a])]
                  /\ result[a] = Fields[k]

\* C9: extra holds exactly the keys of the line that are not a listed synonym
\* key of its format, each with its value; a listed synonym key is never in
\* extra, so a synonym the attribute did not take is dropped.
C9_ExtraIsTheRest ==
    (Parsed /\ HasFields) =>
        /\ DOMAIN result.extra.d = (DOMAIN Fields) \ SynonymKeys
        /\ \A k \in DOMAIN result.extra.d : result.extra.d[k] = Fields[k]

\* a line with two set synonyms of one attribute and another key: the
\* attribute takes the first, extra holds the other key only
C9_Witness ==
    /\ Parsed
    /\ HasFields
    /\ \E a \in DOMAIN Synonyms :
          /\ Cardinality(TruthyAt(Fields, Synonyms[a])) >= 2
          /\ result[a] = StoredValue(Fields, Synonyms[a])
    /\ DOMAIN result.extra.d = {"user"}

\* C10 as stated: raw is the line, character for character.
C10_RawIsLine == Parsed => result.raw = Txt(line)

\* C10: raw is the line without its leading and trailing whitespace, every
\* other character unchanged and in place, under every format.
C10_RawIsTrimmedLine ==
    Parsed =>
        LET r == result.raw.toks IN
        \E a, b \in 0..Len(line) :
            /\ a + Len(r) + b = Len(line)
            /\ SubSeq(line, a + 1, a + Len(r)) = r
            /\ \A i \in (1..a) \cup ((Len(line) - b + 1)..Len(line)) : IsSpace(line[i])
            /\ r # <<>> => ~IsSpace(r[1]) /\ ~IsSpace(r[Len(r)])

\* a line with whitespace at both ends and inside, parsed under a structured format
C10_Witness ==
    /\ Parsed
    /\ line_fmt = "syslog"
    /\ Len(line) >= 3
    /\ IsSpace(line[1]) /\ IsSpace(line[Len(line)])
    /\ result.raw.toks = SubSeq(line, 2, Len(line) - 2)
    /\ \E i \in 1..Len(result.raw.toks) : IsSpace(result.raw.toks[i])

(***************************************************************************)
(* Format detection on long and on mixed files                             *)
(***************************************************************************)
DEFAULT_MAX_LINES == 50

\* the longest mixed file of the runs, in lines
MaxMixedLines == 3

DetectCorpus == {BlankLine, WordsLine, JsonLine, LogfmtLine, ZkLine, JavaLine, SyslogLine}

\* n copies of the line l
Rep(l, n) == [i \in 1..n |-> l]

\* a long run of one blank or plain line and at most one more line, or a short
\* mix of lines of all formats
DetectFiles ==
    {Rep(h, n) \o t :
        <<h, n, t>> \in {BlankLine, WordsLine}
                        \X {DETECT_SCAN - 1, DETECT_SCAN, FORMAT_SAMPLE}
                        \X SeqsUpTo(DetectCorpus, 1)}
    \cup SeqsUpTo(DetectCorpus, MaxMixedLines)

InitDetect ==
    /\ \E ls \in DetectFiles : text = join(ls)
    /\ max_lines = DEFAULT_MAX_LINES
    /\ max_chars = DEFAULT_MAX_CHARS
    /\ pc = "parse_log_file"
    /\ IdleChunker
    /\ IdleParser
    /\ IdleIngest
    /\ IdleBasic
    /\ IdleMeta
    /\ IdleAnalyze

SpecDetect == InitDetect /\ [][Next]_vars

RecognizerOrder == <<"json", "logfmt", "java_structured", "syslog">>

\* the recognizer of format f matches the trimmed line l
Recognizes(f, l) ==
    CASE f = "json"            -> l # <<>> /\ l[1].t \in {"json", "lbrace"}
                                    /\ Len(l) = 1 /\ l[1].t = "json"
      [] f = "logfmt"          -> Cardinality({i \in 1..Len(l) : l[i].t = "kv"}) >= 3
      [] f = "java_structured" -> ZK_LOG_PATTERN(l) # None \/ JAVA_LOG_PATTERN(l) # None
      [] f = "syslog"          -> SYSLOG_PATTERN(l) # None

\* the line votes for f: f is the first format, in order, that recognizes it
VotesFor(f, raw_line) ==
    LET l == Trimmed(raw_line)
        hits == {i \in 1..Len(RecognizerOrder) : Recognizes(RecognizerOrder[i], l)}
    IN /\ l # <<>>
       /\ hits # {}
       /\ RecognizerOrder[CHOOSE i \in hits : \A j \in hits : i <= j] = f

Votes(f, sample) == Cardinality({i \in 1..Len(sample) : VotesFor(f, sample[i])})

\* the format with the most votes, the earliest in order among equals, PLAIN
\* when no line voted
Winner(sample) ==
    LET top == {i \in 1..Len(RecognizerOrder) :
                   /\ Votes(RecognizerOrder[i], sample) > 0
                   /\ \A j \in 1..Len(RecognizerOrder) :
                         Votes(RecognizerOrder[j], sample) <= Votes(RecognizerOrder[i], sample)}
    IN IF top = {} THEN "plain"
       ELSE RecognizerOrder[CHOOSE i \in top : \A j \in top : i <= j]

\* C4: the format smart_chunk_logs and extract_log_stats detect is the winner
\* of the votes of the first 30 non-empty lines of the file, each of them voting.
C4_First30NonEmpty ==
    LET claimed == Winner(Take(NonBlankLines, FORMAT_SAMPLE)) IN
    /\ stats # None => stats.format = claimed
    /\ pc \in {"loop", "done"} /\ splitlines(text) # <<>> => fmt = claimed

\* C5: detect_format returns the winner of the votes of the lines it samples,
\* the first DETECT_SCAN of its argument: a line votes for the first format, in the order
\* JSON, LOGFMT, JAVA_STRUCTURED, SYSLOG, that recognizes it, the most votes
\* win, the earliest format among equals, and PLAIN exactly when no line voted.
C5_Reference ==
    parsed_file # None =>
        parsed_file.fmt = Winner(Take(splitlines(text), DETECT_SCAN))

\* a ZooKeeper line and a Java line outvote a JSON line through their shared counter
C5_Witness ==
    /\ parsed_file # None
    /\ Votes("json", splitlines(text)) = 1
    /\ Votes("java_structured", splitlines(text)) = 2
    /\ \E i \in 1..Len(splitlines(text)) : ZK_LOG_PATTERN(splitlines(text)[i]) # None
    /\ \E i \in 1..Len(splitlines(text)) : JAVA_LOG_PATTERN(splitlines(text)[i]) # None
    /\ parsed_file.fmt = "java_structured"

(***************************************************************************)
(* chunk_text on one text                                                  *)
(***************************************************************************)
\* the longest text handed to chunk_text, in characters
MaxBasicChars == 6

\* the largest max_chars argument of these runs
MaxBasicWindow == 3

\* the largest overlap argument of these runs
MaxBasicOverlap == 3

\* the texts: every arrangement of newlines, spaces and letters, the letter at
\* position i being Ch(i)
BasicTexts ==
    {[i \in 1..Len(k) |-> IF k[i] = "nl" THEN NL ELSE IF k[i] = "sp" THEN SP ELSE Ch(i)] :
        k \in SeqsUpTo({"nl", "sp", "ch"}, MaxBasicChars)}

InitChunkText ==
    /\ text \in BasicTexts
    /\ max_chars \in 1..MaxBasicWindow
    /\ overlap \in 0..MaxBasicOverlap
    /\ max_lines = DEFAULT_MAX_LINES
    /\ pc = "chunk_text"
    /\ blocks = <<>>
    /\ block_no = 0
    /\ s_block = <<>>
    /\ start = 0
    /\ basic_chunks = <<>>
    /\ IdleChunker
    /\ IdleParser
    /\ IdleIngest
    /\ IdleMeta
    /\ IdleAnalyze

NextChunkText == ChunkTextStart \/ PushWithOverlap \/ WindowStep \/ ChunkTextReturn

SpecChunkText == InitChunkText /\ [][NextChunkText]_vars

(***************************************************************************)
(* Properties of chunk_text                                                *)
(***************************************************************************)
\* the block push_with_overlap works on: block i, trimmed
BlockOf(i) == strip(blocks[i])

\* the windows a trimmed block of n characters takes when each window starts
\* max_chars - overlap after the one before
WindowCount(n) ==
    IF n = 0 THEN 0
    ELSE IF n <= max_chars THEN 1
    ELSE CeilDiv(n - max_chars, max_chars - overlap) + 1

\* the chunks the blocks before block i take
EmittedBefore(i) == SumSeq([j \in 1..(i - 1) |-> WindowCount(Len(BlockOf(j)))])

\* the chunks emitted for block i
WindowsOf(i) ==
    SubSeq(basic_chunks, EmittedBefore(i) + 1,
           EmittedBefore(i) + WindowCount(Len(BlockOf(i))))

\* where window j lies when every window after the first starts overlap
\* characters before the end of the one before it
RECURSIVE OffsetOf(_, _)
OffsetOf(ws, j) ==
    IF j = 1 THEN 0 ELSE OffsetOf(ws, j - 1) + Len(ws[j - 1]) - overlap

\* the blocks push_with_overlap has returned from that are longer than max_chars
LongBlocks == {i \in 1..block_no : Len(BlockOf(i)) > max_chars}

\* C11: with 0 <= overlap < max_chars, for every block longer than max_chars
\* that push_with_overlap has worked off: each of its windows has at most
\* max_chars characters; laid out so that every window after the first starts
\* overlap characters before the end of the one before it, each window holds
\* the characters of the block at its place; and the places cover the block.
C11_Windows ==
    (pc \in {"blocks", "chunk_text_done"} /\ overlap < max_chars) =>
        /\ Len(basic_chunks) = EmittedBefore(block_no + 1)
        /\ \A i \in LongBlocks :
              LET b == BlockOf(i)
                  ws == WindowsOf(i)
              IN /\ \A j \in 1..Len(ws) :
                        /\ Len(ws[j]) <= max_chars
                        /\ ws[j] = SubSeq(b, OffsetOf(ws, j) + 1,
                                          OffsetOf(ws, j) + Len(ws[j]))
                 /\ UNION {(OffsetOf(ws, j) + 1)..(OffsetOf(ws, j) + Len(ws[j])) :
                              j \in 1..Len(ws)} = 1..Len(b)

\* a call has returned that cut a block into three or more windows with a
\* positive overlap, the last window shorter than max_chars
C11_Witness ==
    /\ pc = "chunk_text_done"
    /\ 0 < overlap
    /\ overlap < max_chars
    /\ \E i \in LongBlocks :
          /\ Len(WindowsOf(i)) >= 3
          /\ Len(WindowsOf(i)[Len(WindowsOf(i))]) < max_chars

\* C19: chunk_text terminates for every max_chars >= 1 and overlap >= 0: from
\* one iteration of the sliding window to the next, start strictly increases.
C19_StartAdvances == [][(pc = "window" /\ pc' = "window") => start' > start]_vars

(***************************************************************************)
(* detect_metadata on one chunk                                            *)
(***************************************************************************)
\* the longest chunk of mixed lines, in lines
MaxMetaLines == 3

ErrorLine == <<Word("ERROR"), SP, Word("disk")>>

WarnErrorLine == <<SP, Word("warn"), SP, Word("retry"), SP, Word("ERROR")>>

FatalStampLine == <<Ts(STAMP, ""), SP, Word("Fatal"), SP, Word("critical")>>

MetaCorpus == {BlankLine, WordsLine, ErrorLine, WarnErrorLine, FatalStampLine, LogfmtLine}

\* the chunks: a run of 19, 20 or 21 equal lines and at most one line more, and
\* the short chunks of mixed lines
MetaChunks ==
    {Rep(h, n) \o t : h \in {WordsLine, ErrorLine, WarnErrorLine},
                      n \in {META_SCAN - 1, META_SCAN, META_SCAN + 1},
                      t \in SeqsUpTo(MetaCorpus, 1)}
    \cup SeqsUpTo(MetaCorpus, MaxMetaLines)

InitMetadata ==
    /\ \E ls \in MetaChunks : chunk = join(ls)
    /\ filename \in {"app.log", "db.log"}
    /\ chunk_meta = None
    /\ pc = "detect_metadata"
    /\ text = <<>>
    /\ max_lines = DEFAULT_MAX_LINES
    /\ max_chars = DEFAULT_MAX_CHARS
    /\ IdleChunker
    /\ IdleParser
    /\ IdleIngest
    /\ IdleBasic
    /\ IdleAnalyze

NextMetadata == DetectMetadata

SpecMetadata == InitMetadata /\ [][NextMetadata]_vars

(***************************************************************************)
(* Properties of detect_metadata                                           *)
(***************************************************************************)
IsKeyword(x) == Upper(x) \in ERROR_LEVELS \cup WARN_LEVELS

\* the keywords of a line, upper-cased, in the order they occur
Keywords(l) ==
    LET hits == SelectSeq(LineStrings(l), IsKeyword) IN
    [i \in 1..Len(hits) |-> Upper(hits[i])]

\* the first 20 lines of the chunk
Window == Take(splitlines(chunk), META_SCAN)

\* the occurrences of the keywords names in the window
Occurrences(names) ==
    SumSeq([i \in 1..Len(Window) |->
        Len(SelectSeq(Keywords(Window[i]), LAMBDA k : k \in names))])

\* the lines of the window whose first keyword is one of names
FirstKeywordLines(names) ==
    Cardinality({i \in 1..Len(Window) :
        Keywords(Window[i]) # <<>> /\ Keywords(Window[i])[1] \in names})

\* C12 as stated: error_count and warn_count count every occurrence of their
\* keywords in the first 20 lines, also several on one line.
C12_EveryOccurrence ==
    pc = "metadata_done" =>
        /\ chunk_meta.error_count = Occurrences(ERROR_LEVELS)
        /\ chunk_meta.warn_count = Occurrences(WARN_LEVELS)

\* C12: the metadata is that of the first 20 lines of the chunk alone, and in
\* that window error_count is the number of lines whose first keyword is
\* ERROR, FATAL or CRITICAL and warn_count the number of lines whose first
\* keyword is WARN or WARNING: a line counts once, by its first keyword.
C12_FirstKeywordPerLine ==
    pc = "metadata_done" =>
        /\ chunk_meta = detect_metadata(join(Window), filename)
        /\ chunk_meta.error_count = FirstKeywordLines(ERROR_LEVELS)
        /\ chunk_meta.warn_count = FirstKeywordLines(WARN_LEVELS)

\* the metadata of a chunk of more than 20 lines whose window holds lines of
\* two keywords and whose line 21 holds a keyword too
C12_Witness ==
    /\ pc = "metadata_done"
    /\ Len(splitlines(chunk)) > META_SCAN
    /\ Keywords(splitlines(chunk)[META_SCAN + 1]) # <<>>
    /\ \E i \in 1..Len(Window) : Len(Keywords(Window[i])) >= 2
    /\ chunk_meta.warn_count > 0

(***************************************************************************)
(* extract_log_stats on files of many loggers                              *)
(***************************************************************************)
LoggerLine(name) == <<Kv("level", "info"), SP, Kv("msg", "ok"), SP, Kv("logger", name)>>

\* orders in which the first k logger names come in a file
Down(k) == [i \in 1..k |-> k + 1 - i]

Up(k) == [i \in 1..k |-> i]

Rotated(k) == [i \in 1..k |-> ((i + k \div 2) % k) + 1]

\* the files: for every k up to the number of names, the first k names in each
\* order, every name once or twice, with or without lines that name no logger
LoggerFiles ==
    LET orders == UNION {{Down(k), Up(k), Rotated(k), Down(k) \o Up(k)} :
                            k \in 0..Len(LoggerNames)}
        named(o) == [i \in 1..Len(o) |-> LoggerLine(LoggerNames[o[i]])]
    IN UNION {{named(o), <<BlankLine>> \o named(o) \o <<LogfmtLine, BlankLine>>} :
                 o \in orders}

InitLoggers ==
    /\ \E ls \in LoggerFiles : text = join(ls)
    /\ max_lines = DEFAULT_MAX_LINES
    /\ max_chars = DEFAULT_MAX_CHARS
    /\ pc = "parse_log_file"
    /\ IdleChunker
    /\ IdleParser
    /\ IdleIngest
    /\ IdleBasic
    /\ IdleMeta
    /\ IdleAnalyze

SpecLoggers == InitLoggers /\ [][Next]_vars

\* the distinct loggers of the parsed lines of the text
LoggersOfText ==
    LET lines == splitlines(text) IN
    LoggerSet(ParseAll(lines, detect_format(Take(lines, FORMAT_SAMPLE))))

\* C13: the loggers list extract_log_stats returns is in strictly ascending
\* order (sorted, no duplicate), has at most 20 entries, all of them loggers of
\* the parsed lines, as many as there are up to 20, and no logger left out is
\* smaller than one listed; total_lines is the number of non-blank lines.
C13_Loggers ==
    stats # None =>
        LET L == stats.loggers
            listed == {L[i] : i \in 1..Len(L)}
        IN /\ \A i, j \in 1..Len(L) : i < j => SortKey(L[i]) < SortKey(L[j])
           /\ Len(L) <= LOGGERS_CAP
           /\ listed \subseteq LoggersOfText
           /\ Len(L) = Min(LOGGERS_CAP, Cardinality(LoggersOfText))
           /\ \A x \in LoggersOfText \ listed : \A y \in listed : SortKey(y) < SortKey(x)
           /\ stats.total_lines = Len(NonBlankLines)

\* stats of a file of more than 20 distinct loggers, some named twice, the
\* first line naming none of the 20 smallest, with blank lines in the file
C13_Witness ==
    /\ stats # None
    /\ Cardinality(LoggersOfText) > LOGGERS_CAP
    /\ Len(stats.loggers) = LOGGERS_CAP
    /\ stats.total_lines > Cardinality(LoggersOfText) + 1
    /\ stats.total_lines < Len(splitlines(text))
    /\ parse_line(NonBlankLines[1], stats.format).logger
           \notin {stats.loggers[i] : i \in 1..Len(stats.loggers)}

(***************************************************************************)
(* The calls on a text of whitespace alone                                 *)
(***************************************************************************)
\* the longest whitespace-only text, in characters
MaxBlankChars == 6

\* every text of newlines and spaces, the empty text among them
BlankTexts == SeqsUpTo({NL, SP}, MaxBlankChars)

InitBlank ==
    /\ text \in BlankTexts
    /\ max_lines \in 1..MaxLinesArg
    /\ max_chars \in {1, DEFAULT_MAX_CHARS}
    /\ pc = "parse_log_file"
    /\ IdleChunker
    /\ IdleParser
    /\ IdleIngest
    /\ IdleBasic
    /\ IdleMeta
    /\ IdleAnalyze

NextBlank == ParseLogFile \/ ExtractLogStats \/ SmartChunkStart

SpecBlank == InitBlank /\ [][NextBlank]_vars

\* C14: on an empty or whitespace-only text nothing raises, extract_log_stats
\* returns total_lines 0, every level count 0, no first or last timestamp, no
\* loggers and format plain, and smart_chunk_logs returns no chunk.
C14_EmptyText ==
    /\ raised = ""
    /\ pc \notin {"parse_log_file", "stats"} =>
          stats = [total_lines |-> 0, format |-> "plain", error_count |-> 0,
                   warn_count |-> 0, info_count |-> 0, debug_count |-> 0,
                   first_timestamp |-> None, last_timestamp |-> None,
                   loggers |-> <<>>]
    /\ pc \notin {"parse_log_file", "stats", "chunk"} => pc = "done" /\ chunks = <<>>

\* smart_chunk_logs has returned from a text of several lines, none empty of
\* characters, that went through the fallback to chunk_text
C14_Witness ==
    /\ pc = "done"
    /\ Len(splitlines(text)) >= 2
    /\ \E i \in 1..Len(text) : text[i] = SP
    /\ stats # None
    /\ chunks = <<>>

(***************************************************************************)
(* smart_chunk_logs on texts of lines with different timestamps and levels *)
(***************************************************************************)
WarnLine ==
    <<Json(<<P("level", Str("warn")), P("ts", Str("2024-01-01T00:00:00"))>>)>>

ErrorStampLine ==
    <<Json(<<P("ts", Str("2024-01-02 10:00:00")), P("level", Str("error"))>>)>>

QuietLine == <<Json(<<P("msg", Str("ok"))>>)>>

StampCorpus == {WarnLine, ErrorStampLine, QuietLine, PlainLine}

InitChunkMeta ==
    /\ \E ls \in SeqsUpTo(StampCorpus, MaxTextLines) : text = join(ls)
    /\ max_lines \in 1..MaxLinesArg
    /\ max_chars \in {SmallMaxChars, DEFAULT_MAX_CHARS}
    /\ pc = "parse_log_file"
    /\ IdleChunker
    /\ IdleParser
    /\ IdleIngest
    /\ IdleBasic
    /\ IdleMeta
    /\ IdleAnalyze

SpecChunkMeta == InitChunkMeta /\ [][Next]_vars

\* the parsed lines that chunk i holds: those after the lines of the chunks before it
ParsedOf(i) ==
    LET before == SumSeq([j \in 1..(i - 1) |-> Len(ChunkLines(chunks[j]))]) IN
    SubSeq(parsed, before + 1, before + Len(ChunkLines(chunks[i])))

\* the metadata that aggregates the parsed lines ps and nothing else
MetaOf(ps) ==
    [first_timestamp |-> FirstTimestamp(ps),
     last_timestamp |-> LastTimestamp(ps),
     error_count |-> CountLevel(ps, ERROR_LEVELS),
     warn_count |-> CountLevel(ps, WARN_LEVELS),
     log_format |-> detect_format(Take(splitlines(text), FORMAT_SAMPLE))]

\* C16: the metadata of every emitted chunk aggregates the lines of that chunk
\* alone: the counts of its error and warning lines, the timestamps of its
\* first and last line that has one, and the detected format; so does the
\* metadata of the open chunk after every reset.
C16_ChunkMeta ==
    pc \in {"loop", "done"} =>
        /\ \A i \in 1..Len(chunks) : chunks[i].metadata = MetaOf(ParsedOf(i))
        /\ current_chunk_meta =
              MetaOf(SubSeq(parsed, idx - Len(current_chunk_lines) + 1, idx))

\* a returned call whose first chunk has an error line and a timestamp, with a
\* later chunk that has neither and a later chunk of two different timestamps
C16_Witness ==
    /\ pc = "done"
    /\ Len(chunks) >= 3
    /\ chunks[1].metadata.error_count > 0
    /\ chunks[1].metadata.last_timestamp # None
    /\ \E i \in 2..Len(chunks) :
          /\ chunks[i].metadata.error_count = 0
          /\ chunks[i].metadata.first_timestamp = None
    /\ \E i \in 2..Len(chunks) :
          /\ chunks[i].metadata.first_timestamp # None
          /\ chunks[i].metadata.first_timestamp # chunks[i].metadata.last_timestamp

(***************************************************************************)
(* smart_chunk_logs against extract_log_stats                              *)
(***************************************************************************)
\* the sum of a count of the metadata over the chunks
TotalErrors == SumSeq([i \in 1..Len(chunks) |-> chunks[i].metadata.error_count])

TotalWarnings == SumSeq([i \in 1..Len(chunks) |-> chunks[i].metadata.warn_count])

\* C20: when extract_log_stats and smart_chunk_logs have both returned on one
\* text, the error counts of the chunks add up to the error_count of the
\* stats, the warning counts to its warn_count, the lines of the chunks to its
\* total_lines, and every chunk has the format of the stats.
C20_Agree ==
    (pc = "done" /\ stats # None) =>
        /\ TotalErrors = stats.error_count
        /\ TotalWarnings = stats.warn_count
        /\ Len(EmittedLines) = stats.total_lines
        /\ \A i \in 1..Len(chunks) : chunks[i].metadata.log_format = stats.format

\* both calls have returned on a text with error and warning lines that was
\* cut into several chunks, errors in more than one of them
C20_Witness ==
    /\ pc = "done"
    /\ stats # None
    /\ Len(chunks) >= 3
    /\ stats.warn_count > 0
    /\ stats.error_count >= 2
    /\ \E i, j \in 1..Len(chunks) :
          /\ i # j
          /\ chunks[i].metadata.error_count > 0
          /\ chunks[j].metadata.error_count > 0

(***************************************************************************)
(* One upload through the ingest endpoint                                  *)
(***************************************************************************)
\* the largest MAX_CHUNKS of the uploads
MaxChunksArg == 2

\* JSON lines long enough to reach max_chars = 2000 alone
LongErrorLine == <<Json(<<P("level", Str("error")), P("ctx", Obj(300))>>)>>

LongQuietLine == <<Json(<<P("ctx", Obj(300))>>)>>

IngestCorpus == {WarnLine, PlainLine, LongErrorLine, LongQuietLine}

InitIngest ==
    /\ \E ls \in SeqsUpTo(IngestCorpus, MaxTextLines) : text = join(ls)
    /\ max_lines = DEFAULT_MAX_LINES
    /\ max_chars = DEFAULT_MAX_CHARS
    /\ MAX_CHUNKS \in 1..MaxChunksArg
    /\ chunk_texts = <<>>
    /\ metas = <<>>
    /\ filename = "app.log"
    /\ chunk = <<>>
    /\ chunk_meta = None
    /\ pc = "stats"
    /\ IdleChunker
    /\ IdleParser
    /\ IdleBasic
    /\ IdleAnalyze

NextIngest ==
    \/ ExtractLogStats
    \/ SmartChunkStart
    \/ ChunkStep
    \/ ChunkFinish
    \/ IngestMetas
    \/ IngestSelect

SpecIngest == InitIngest /\ [][NextIngest]_vars

\* what detect_metadata finds in the text of chunk i
ExtractorMeta(i) == detect_metadata(chunks[i].text.toks, filename)

\* C17 as stated: the persisted error_count and warn_count of a chunk of the
\* structured chunker are those detect_metadata computes.
C17_ExtractorWins ==
    (pc = "select" /\ chunks # <<>>) =>
        \A i \in 1..Len(chunks) :
            /\ metas[i].error_count = ExtractorMeta(i).error_count
            /\ metas[i].warn_count = ExtractorMeta(i).warn_count

\* C17: the persisted metadata of a chunk of the structured chunker has the
\* chunker's error_count and warn_count, as every other key the chunker sets;
\* detect_metadata gives only the keys the chunker does not set: filename,
\* timestamp and level.
C17_ChunkerWins ==
    (pc = "select" /\ chunks # <<>>) =>
        /\ Len(metas) = Len(chunks)
        /\ \A i \in 1..Len(chunks) :
              /\ \A k \in DOMAIN chunks[i].metadata : metas[i][k] = chunks[i].metadata[k]
              /\ metas[i].filename = ExtractorMeta(i).filename
              /\ metas[i].timestamp = ExtractorMeta(i).timestamp
              /\ metas[i].level = ExtractorMeta(i).level

\* the metadata of a chunk for which detect_metadata counts an error line that
\* the chunker does not count
C17_Witness ==
    /\ pc = "select"
    /\ \E i \in 1..Len(chunks) :
          /\ ExtractorMeta(i).error_count > chunks[i].metadata.error_count
          /\ metas[i].level # None

\* the persisted metadata of all chunks, before any is dropped
AllMetas == [i \in 1..Len(chunks) |-> Update(ExtractorMeta(i), chunks[i].metadata)]

\* C18: when there are more chunks than MAX_CHUNKS, the lists handed to
\* embedding and storage hold MAX_CHUNKS chunks: the chunks at some MAX_CHUNKS
\* positions, in ascending order of position, each with its own metadata, no
\* chunk left out scoring higher than one kept.
C18_Selection ==
    (pc = "embed" /\ Len(chunks) > MAX_CHUNKS) =>
        /\ Len(chunk_texts) = MAX_CHUNKS
        /\ Len(metas) = MAX_CHUNKS
        /\ \E kept \in SUBSET (1..Len(chunks)) :
              /\ Cardinality(kept) = MAX_CHUNKS
              /\ \A k \in 1..MAX_CHUNKS :
                    /\ chunk_texts[k] = chunks[Ascending(kept)[k]].text.toks
                    /\ metas[k] = AllMetas[Ascending(kept)[k]]
              /\ \A d \in (1..Len(chunks)) \ kept : \A k \in kept :
                    Score(AllMetas[d]) <= Score(AllMetas[k])

\* an upload of more chunks than MAX_CHUNKS where the best chunk is not the
\* first, a chunk before it is kept and a chunk between the kept ones is dropped
C18_Witness ==
    /\ pc = "embed"
    /\ MAX_CHUNKS = 2
    /\ Len(chunks) >= 4
    /\ Len(chunk_texts) = 2
    /\ Score(metas[2]) > Score(metas[1])
    /\ Score(metas[1]) > Score(AllMetas[2])
    /\ chunk_texts[1] = chunks[1].text.toks
    /\ chunk_texts[2] # chunks[2].text.toks

(***************************************************************************)
(* Requests to the analyze endpoint, one after another or interleaved      *)
(***************************************************************************)
InitAnalyze ==
    /\ text = <<>>
    /\ max_lines = DEFAULT_MAX_LINES
    /\ max_chars = DEFAULT_MAX_CHARS
    /\ pc = "analyze"
    /\ IdleChunker
    /\ IdleParser
    /\ IdleIngest
    /\ IdleBasic
    /\ IdleMeta
    /\ IdleAnalyze

NextAnalyze ==
    \E r \in Requests :
        \/ AnalyzeNoHits(r)
        \/ AnalyzeAsk(r)
        \/ AssignId(r)
        \/ TestHistory(r)
        \/ CreateHistory(r)
        \/ AppendExchange(r)
        \/ AnalyzeReturn(r)

SpecAnalyze == InitAnalyze /\ [][NextAnalyze]_vars

\* the exchange request r stores
Exchange(r) == [q |-> req[r].question, a |-> Summary(r)]

\* the positions of the exchange of request r in the history under id key
PositionsOf(r, key) ==
    {i \in 1..Len(conversations[key]) : conversations[key][i] = Exchange(r)}

\* the requests that have returned a conversation_id
Answered == {r \in Requests : where[r] = "returned" /\ response[r] # None}

\* C21: every request that has returned a conversation_id has its exchange
\* once in the history under that id and in no other history, and when the
\* request supplied no conversation_id that history begins with its exchange:
\* the id it was given belonged to no conversation.
C21_FreshIdNoneLost ==
    \A r \in Answered :
        /\ response[r].s \in DOMAIN conversations
        /\ Cardinality(PositionsOf(r, response[r].s)) = 1
        /\ \A key \in DOMAIN conversations \ {response[r].s} : PositionsOf(r, key) = {}
        /\ ~Truthy(req[r].conversation_id) => conversations[response[r].s][1] = Exchange(r)

====
